---- MODULE Spec2Model ----
(***************************************************************************)
(* Model of scripts/compare_ssim.py: the batch comparison of original and  *)
(* round-tripped .docx renderings (main), the per-file worker              *)
(* (process_one_file), the padding step of compute_ssim and the ordering   *)
(* and classification of generate_html_report.                             *)
(*                                                                         *)
(* Scores are integers in hundredths (1.0 is 100).  A mean is kept as the  *)
(* exact fraction <<sum, count>>.  A path is a record; the empty string    *)
(* used by the program for "no image" is NoPath.  The file system is the   *)
(* set of paths that exist.                                                *)
(***************************************************************************)
EXTENDS Integers, Sequences, FiniteSets, TLC

\* ------------------------------------------------------------------ bounds

\* Most pages pdftoppm renders for one PDF.
MaxPages == 2
\* Largest height and width of a page image given to compute_ssim.
MaxH == 2
MaxW == 2

\* ------------------------------------------------------- program constants

\* FileReport.min_ssim / mean_ssim default 1.0, in hundredths.
One == 100
\* --threshold default 0.98, in hundredths.
Threshold == 98
\* The fill value of the padded arrays.
White == 255

\* ------------------------------------------------------------ environment

\* The manifest's names, in manifest order.
file_names == <<"a.docx", "b.docx", "c.docx">>
NameSet == {file_names[k] : k \in 1..Len(file_names)}

\* Path(name).stem
Stem(name) ==
    CASE name = "a.docx" -> "a"
      [] name = "b.docx" -> "b"
      [] name = "c.docx" -> "c"

\* Values structural_similarity can return, in hundredths: a negative mean
\* index (the index ranges over [-1, 1]) and the default threshold itself.
Scores == {-50, 98}

\* How one pdftoppm call ends.
RenderOutcomes == {"ok", "CalledProcessError", "TimeoutExpired"}
\* What compute_ssim raises when it fails: the MemoryError of an oversized
\* page.  (Any other exception takes the second except clause, as the
\* TimeoutExpired of pdftoppm does.)
ScoreFaults == {"MemoryError"}

\* ------------------------------------------------------------------ paths

NoPath == [dir |-> "", stem |-> "", file |-> "", n |-> 0]
Path(d, s, f, k) == [dir |-> d, stem |-> s, file |-> f, n |-> k]

OrigDocx(name) == Path("original", Stem(name), "docx", 0)
RtDocx(name) == Path("roundtrip", Stem(name), "docx", 0)
\* orig_pdf_dir / f"{stem}.pdf", rt_pdf_dir / f"{stem}.pdf"
OrigPdf(stem) == Path("work/orig_pdf", stem, "pdf", 0)
RtPdf(stem) == Path("work/rt_pdf", stem, "pdf", 0)
\* diff_png_dir / "diff-k.png", "orig-k.png", "rt-k.png"
DiffDst(stem, k) == Path("report/images", stem, "diff", k)
OrigDst(stem, k) == Path("report/images", stem, "orig", k)
RtDst(stem, k) == Path("report/images", stem, "rt", k)

\* shutil.rmtree(dir / stem): every file under that directory goes.
Rmtree(fs, d, stem) == {p \in fs : ~(p.dir = d /\ p.stem = stem)}

\* ------------------------------------------------------------- arithmetic

Min2(a, b) == IF a <= b THEN a ELSE b
Max2(a, b) == IF a >= b THEN a ELSE b

RECURSIVE SumSeq(_)
SumSeq(s) == IF s = <<>> THEN 0 ELSE Head(s) + SumSeq(Tail(s))

RECURSIVE MinSeq(_)
MinSeq(s) ==
    IF Len(s) = 1 THEN Head(s) ELSE Min2(Head(s), MinSeq(Tail(s)))

\* Equality of two fractions <<num, den>>.
FracEq(x, y) == x[1] * y[2] = y[1] * x[2]

\* report.min_ssim = min(scores) if scores else 1.0
MinOf(scores) == IF scores = <<>> THEN One ELSE MinSeq(scores)
\* report.mean_ssim = float(np.mean(scores)) if scores else 1.0
MeanOf(scores) ==
    IF scores = <<>> THEN <<One, 1>> ELSE <<SumSeq(scores), Len(scores)>>

\* -------------------------------------------------------- data structures

PageResult(k, score, o, r, d) ==
    [page |-> k, ssim_score |-> score, orig_png |-> o, rt_png |-> r,
     diff_png |-> d]

\* FileReport(name=..., ok=..., error=...) with the dataclass defaults.
FileReport(name, ok, error) ==
    [name |-> name, ok |-> ok, error |-> error, pages |-> <<>>,
     min_ssim |-> One, mean_ssim |-> <<One, 1>>]

\* ------------------------------------------------------------ pdf_to_pngs

\* The pages pdftoppm writes for a PDF of n pages, and the sorted glob.
PngFiles(d, stem, n) == {Path(d, stem, "page", k) : k \in 1..n}
PngPages(d, stem, n) == [k \in 1..n |-> Path(d, stem, "page", k)]

\* ----------------------------------------------------------- compute_ssim

\* A grayscale array: its shape and its pixels.
Image(h, w, px) == [h |-> h, w |-> w, px |-> px]

\* A padding that starts from np.zeros instead of white.
PadToZeros(a, h, w) ==
    Image(h, w,
          [c \in (1..h) \X (1..w) |->
              IF c[1] <= a.h /\ c[2] <= a.w THEN a.px[c] ELSE 0])

\* a_pad = np.ones((h, w)) * 255; a_pad[:a.shape[0], :a.shape[1]] = a
PadTo(a, h, w) ==
    Image(h, w,
          [c \in (1..h) \X (1..w) |->
              IF c[1] <= a.h /\ c[2] <= a.w THEN a.px[c] ELSE White])

\* The two arrays handed to structural_similarity.
ScoredPair(a, b) ==
    IF a.h # b.h \/ a.w # b.w
    THEN LET h == Max2(a.h, b.h)
             w == Max2(a.w, b.w)
         IN  <<PadTo(a, h, w), PadTo(b, h, w)>>
    ELSE <<a, b>>

\* ------------------------------------------------ _process_one_file_inner

\* What the environment does to one document's comparison: how the two
\* pdftoppm calls end (ro, rr), the pages they render (nO, nR), the score of
\* each compared page (sc), and the page at which compute_ssim raises (at,
\* 0 for never) with what it raises (exc).
Outcome(ro, rr, nO, nR, sc, at, exc) ==
    [ro |-> ro, rr |-> rr, nO |-> nO, nR |-> nR, sc |-> sc, at |-> at,
     exc |-> exc]

\* The outcomes, each written once: what the code never reads is left at
\* its default.
Outcomes ==
    LET bad == RenderOutcomes \ {"ok"}
        cmp(nO, nR) == Min2(nO, nR)
    IN  {Outcome(ro, "ok", 0, 0, <<>>, 0, "none") : ro \in bad}
        \cup {Outcome("ok", rr, nO, 0, <<>>, 0, "none") :
                 rr \in bad, nO \in 0..MaxPages}
        \cup UNION {UNION {
               {Outcome("ok", "ok", nO, nR, sc, 0, "none") :
                    sc \in [1..cmp(nO, nR) -> Scores]}
               \cup UNION {
                     {Outcome("ok", "ok", nO, nR, sc, at, exc) :
                          sc \in [1..(at - 1) -> Scores], exc \in ScoreFaults}
                     : at \in 1..cmp(nO, nR)}
               : nR \in 0..MaxPages} : nO \in 0..MaxPages}

\* The state of the call: the report object (shared with the caller), the
\* scores list, the file system, and the exception in flight if any.
Frame(report, scores, fs, raised) ==
    [report |-> report, scores |-> scores, files |-> fs, raised |-> raised]

\* A loop that stops where the shorter page list ends.
overlap_pages(orig_pages, rt_pages) == Min2(Len(orig_pages), Len(rt_pages))

\* max_pages = max(len(orig_pages), len(rt_pages))
max_pages(orig_pages, rt_pages) == Max2(Len(orig_pages), Len(rt_pages))

\* for idx in range(max_pages): ...   (k is idx + 1)
RECURSIVE PageLoop(_, _, _, _)
PageLoop(k, st, stem, o) ==
    LET orig_pages == PngPages("work/orig_png", stem, o.nO)
        rt_pages == PngPages("work/rt_png", stem, o.nR)
    IN  IF k > max_pages(orig_pages, rt_pages) THEN st
        ELSE IF k > o.nO \/ k > o.nR
        THEN PageLoop(k + 1,
                 [st EXCEPT
                    !.report.pages = Append(@,
                        PageResult(k, 0,
                            IF k <= o.nO THEN orig_pages[k] ELSE NoPath,
                            IF k <= o.nR THEN rt_pages[k] ELSE NoPath,
                            NoPath)),
                    !.scores = Append(@, 0)],
                 stem, o)
        ELSE IF o.at = k THEN [st EXCEPT !.raised = o.exc]
        ELSE PageLoop(k + 1,
                 [st EXCEPT
                    !.scores = Append(@, o.sc[k]),
                    !.files = @ \cup {DiffDst(stem, k), OrigDst(stem, k),
                                      RtDst(stem, k)},
                    !.report.pages = Append(@,
                        PageResult(k, o.sc[k], OrigDst(stem, k),
                                   RtDst(stem, k), DiffDst(stem, k)))],
                 stem, o)

\* The early return of a failed report.
Failed(report, error, fs) ==
    Frame([report EXCEPT !.ok = FALSE, !.error = error], <<>>, fs, "none")

\* The cleanup after the loop.
CleanUp(fs, stem) ==
    Rmtree(Rmtree(fs, "work/orig_png", stem), "work/rt_png", stem)

\* The aggregates and the cleanup after the loop.
Finish(st, stem) ==
    [st EXCEPT !.report.min_ssim = MinOf(st.scores),
               !.report.mean_ssim = MeanOf(st.scores),
               !.files = CleanUp(st.files, stem)]

process_one_file_inner(name, stem, report, fs, o) ==
    IF OrigPdf(stem) \notin fs
    THEN Failed(report, "original PDF missing", fs)
    ELSE IF RtPdf(stem) \notin fs
    THEN Failed(report, "roundtrip PDF missing", fs)
    ELSE IF o.ro = "CalledProcessError"
    THEN Failed(report, "pdftoppm failed", fs)
    ELSE IF o.ro # "ok"
    THEN Frame(report, <<>>, fs, o.ro)
    ELSE LET fs1 == fs \cup PngFiles("work/orig_png", stem, o.nO)
         IN  IF o.rr = "CalledProcessError"
             THEN Failed(report, "pdftoppm failed", fs1)
             ELSE IF o.rr # "ok"
             THEN Frame(report, <<>>, fs1, o.rr)
             ELSE LET fs2 == fs1 \cup PngFiles("work/rt_png", stem, o.nR)
                  IN  IF o.nO = 0
                      THEN Failed(report, "original PDF produced no pages",
                                  fs2)
                      ELSE IF o.nR = 0
                      THEN Failed(report,
                                  "roundtrip PDF produced no pages", fs2)
                      ELSE LET st == PageLoop(1,
                                        Frame(report, <<>>, fs2, "none"),
                                        stem, o)
                           IN  IF st.raised # "none" THEN st
                               ELSE Finish(st, stem)

\* ------------------------------------------------------- process_one_file

\* str(exc)
Str(exc) ==
    IF exc = "TimeoutExpired" THEN "pdftoppm timed out" ELSE "exception"

\* The except clauses: they set ok and error on the report the inner
\* function was filling in.
Handled(report, raised) ==
    IF raised = "MemoryError"
    THEN [report EXCEPT !.ok = FALSE,
                        !.error = "out of memory (image too large)"]
    ELSE [report EXCEPT !.ok = FALSE, !.error = Str(raised)]

\* The report returned and the file system left behind.
process_one_file(name, fs, o) ==
    LET stem == Stem(name)
        st == process_one_file_inner(name, stem, FileReport(name, TRUE, ""),
                                     fs, o)
    IN  [report |-> IF st.raised = "none" THEN st.report
                    ELSE Handled(st.report, st.raised),
         files |-> st.files]

\* --------------------------------------------------- generate_html_report

\* A key that leaves r.ok out.
KeyLessScoreOnly(r1, r2) == r1.min_ssim < r2.min_ssim

\* key=lambda r: (r.ok, r.min_ssim), compared as Python compares tuples
\* (False sorts before True).
KeyLess(r1, r2) ==
    \/ ~r1.ok /\ r2.ok
    \/ r1.ok = r2.ok /\ r1.min_ssim < r2.min_ssim

\* sorted() is stable: r goes before the first element that is greater.
RECURSIVE InsertSorted(_, _)
InsertSorted(r, s) ==
    IF s = <<>> THEN <<r>>
    ELSE IF KeyLess(r, Head(s)) THEN <<r>> \o s
    ELSE <<Head(s)>> \o InsertSorted(r, Tail(s))

RECURSIVE SortedInto(_, _)
SortedInto(acc, rest) ==
    IF rest = <<>> THEN acc
    ELSE SortedInto(InsertSorted(Head(rest), acc), Tail(rest))

\* reports_sorted = sorted(reports, key=...)
Sorted(rs) == SortedInto(<<>>, rs)

\* status_cls
StatusCls(r, threshold) ==
    IF ~r.ok THEN "fail"
    ELSE IF r.min_ssim < threshold THEN "warn" ELSE "pass"

\* The rows of the table, in the order they are written.
generate_html_report(rs, threshold) ==
    LET reports_sorted == Sorted(rs)
    IN  [k \in 1..Len(reports_sorted) |->
            [name |-> reports_sorted[k].name,
             status_cls |-> StatusCls(reports_sorted[k], threshold),
             ok |-> reports_sorted[k].ok,
             min_ssim |-> reports_sorted[k].min_ssim]]

\* ------------------------------------------------------ docx_to_pdf_batch

\* How LibreOffice behaves on one directory: how the batch call ends
\* (batch), the PDFs it wrote (made), and how each single-file retry ends.
BatchEnds == {"ok", "failed", "TimeoutExpired"}
SingleEnds == {"ok", "failed", "TimeoutExpired"}

\* sorted(docx_dir.glob("*.docx")), as names
DocxFiles(fs, dir) ==
    SelectSeq(file_names,
              LAMBDA n : Path(dir, Stem(n), "docx", 0) \in fs)

\* for f in chunk: retry each file alone; a timeout propagates.
RECURSIVE RetryEach(_, _, _, _)
RetryEach(chunk, fs, pdf_dir, lo) ==
    IF chunk = <<>> THEN [raised |-> "none", files |-> fs]
    ELSE LET f == Head(chunk)
         IN  IF lo.single[f] = "TimeoutExpired"
             THEN [raised |-> "TimeoutExpired", files |-> fs]
             ELSE RetryEach(Tail(chunk),
                    IF lo.single[f] = "ok"
                    THEN fs \cup {Path(pdf_dir, Stem(f), "pdf", 0)}
                    ELSE fs,
                    pdf_dir, lo)

\* One chunk holds every file (there are fewer than chunk_size of them).
docx_to_pdf_batch(fs, docx_dir, pdf_dir, lo) ==
    LET docx_files == DocxFiles(fs, docx_dir)
    IN  IF docx_files = <<>> THEN [raised |-> "none", files |-> fs]
        ELSE IF lo.batch = "TimeoutExpired"
        THEN [raised |-> "TimeoutExpired", files |-> fs]
        ELSE LET fs1 == fs \cup {Path(pdf_dir, Stem(f), "pdf", 0) :
                                    f \in lo.made}
             IN  IF lo.batch = "failed"
                 THEN RetryEach(docx_files, fs1, pdf_dir, lo)
                 ELSE [raised |-> "none", files |-> fs1]

\* What LibreOffice can do with the files of a directory.
BatchOutcomes(fs, docx_dir) ==
    LET present == {n \in NameSet : Path(docx_dir, Stem(n), "docx", 0) \in fs}
    IN  {[batch |-> b, made |-> m, single |-> s] :
            b \in BatchEnds, m \in SUBSET present,
            s \in [NameSet -> SingleEnds]}

\* ------------------------------------------------------------------- main

VARIABLES
    manifest,    \* name -> the manifest entry's ok
    workers,     \* args.workers
    pc,          \* where main is
    files,       \* the paths that exist
    reports,     \* main's reports list
    i,           \* compare_names already processed
    rows,        \* the report's rows, once written
    exit_code,   \* the process's exit status, -1 while it runs
    calls,       \* name -> whether process_one_file ran, and its outcome
    img_a, img_b,\* the arrays compute_ssim loaded
    scored       \* the arrays it handed to structural_similarity

mainVars ==
    <<manifest, workers, pc, files, reports, i, rows, exit_code, calls>>
ssimVars == <<img_a, img_b, scored>>
vars == <<mainVars, ssimVars>>

\* failed_rt = {e["name"] for e in manifest if not e["ok"]}
failed_rt == {n \in NameSet : ~manifest[n]}

\* A list that keeps the round-trip failures in.
compare_all_names == file_names

\* compare_names = [n for n in file_names if n not in failed_rt]
compare_names == SelectSeq(file_names, LAMBDA n : n \notin failed_rt)

RECURSIVE Reversed(_)
Reversed(s) == IF s = <<>> THEN <<>> ELSE Append(Reversed(Tail(s)), Head(s))

\* A pool whose results arrive last-submitted first when it has more than
\* one worker.
CompletionOrder(names, w) == IF w > 1 THEN Reversed(names) ELSE names

\* The order in which the loop takes compare_names: the list's own order,
\* whatever args.workers is (it is parsed and never read).
CompareOrder(names, w) == names

\* for name in file_names: if name in failed_rt: reports.append(...)
Prepopulated ==
    LET failed == SelectSeq(file_names, LAMBDA n : n \in failed_rt)
    IN  [k \in 1..Len(failed) |->
            FileReport(failed[k], FALSE, "roundtrip failed (Go)")]

\* An exit status that looks at the errors only.
ExitStatusErrorsOnly(rs, threshold) ==
    IF {k \in 1..Len(rs) : ~rs[k].ok} # {} THEN 1 ELSE 0

\* if below or errors: sys.exit(1)
ExitStatus(rs, threshold) ==
    LET below == {k \in 1..Len(rs) :
                     rs[k].ok /\ rs[k].min_ssim < threshold}
        errors == {k \in 1..Len(rs) : ~rs[k].ok}
    IN  IF below # {} \/ errors # {} THEN 1 ELSE 0

NotCalled == [called |-> FALSE]
NoRender == Outcome("none", "none", 0, 0, <<>>, 0, "none")

\* pdftoppm and compute_ssim run only when both PDFs exist.
OutcomesFor(name, fs) ==
    IF OrigPdf(Stem(name)) \in fs /\ RtPdf(Stem(name)) \in fs
    THEN Outcomes ELSE {NoRender}

NoImage == Image(0, 0, <<>>)

MainInit ==
    /\ manifest \in [NameSet -> BOOLEAN]
    /\ \E partial \in SUBSET NameSet :
          files = {OrigDocx(n) : n \in NameSet}
                  \cup {RtDocx(n) : n \in {m \in NameSet : manifest[m]}}
                  \cup {RtDocx(n) : n \in {m \in partial : ~manifest[m]}}
    /\ pc = "convert_orig"
    /\ reports = <<>>
    /\ i = 0
    /\ rows = <<>>
    /\ exit_code = -1
    /\ calls = [n \in NameSet |-> NotCalled]

SsimIdle ==
    /\ img_a = NoImage
    /\ img_b = NoImage
    /\ scored = <<>>

\* An uncaught exception: the traceback and exit status 1.
Crash ==
    /\ pc' = "crashed"
    /\ exit_code' = 1

\* docx_to_pdf_batch(original_dir, orig_pdf_dir)
ConvertOriginals ==
    /\ pc = "convert_orig"
    /\ \E lo \in BatchOutcomes(files, "original") :
          LET r == docx_to_pdf_batch(files, "original", "work/orig_pdf", lo)
          IN  /\ files' = r.files
              /\ IF r.raised = "none"
                 THEN pc' = "convert_rt" /\ UNCHANGED exit_code
                 ELSE Crash
    /\ UNCHANGED <<manifest, workers, reports, i, rows, calls, ssimVars>>

\* docx_to_pdf_batch(roundtrip_dir, rt_pdf_dir)
ConvertRoundtrip ==
    /\ pc = "convert_rt"
    /\ \E lo \in BatchOutcomes(files, "roundtrip") :
          LET r == docx_to_pdf_batch(files, "roundtrip", "work/rt_pdf", lo)
          IN  /\ files' = r.files
              /\ IF r.raised = "none"
                 THEN pc' = "prepopulate" /\ UNCHANGED exit_code
                 ELSE Crash
    /\ UNCHANGED <<manifest, workers, reports, i, rows, calls, ssimVars>>

\* After the loop: generate_html_report, the JSON dump and the exit status.
ReportAndExit(rs) ==
    /\ rows' = generate_html_report(rs, Threshold)
    /\ exit_code' = ExitStatus(rs, Threshold)
    /\ pc' = "done"

\* Pre-populate roundtrip failures; with nothing to compare the loop is
\* skipped and the report follows at once.
Prepopulate ==
    /\ pc = "prepopulate"
    /\ reports' = Prepopulated
    /\ IF compare_names = <<>>
       THEN ReportAndExit(reports')
       ELSE pc' = "compare" /\ UNCHANGED <<rows, exit_code>>
    /\ UNCHANGED <<manifest, workers, files, i, calls, ssimVars>>

\* One turn of the loop over compare_names, and after the last one the
\* report.  process_one_file catches every Exception itself, so the loop's
\* own except clause has nothing to catch.
CompareNext ==
    /\ pc = "compare"
    /\ i < Len(compare_names)
    /\ LET name == CompareOrder(compare_names, workers)[i + 1]
       IN  \E o \in OutcomesFor(name, files) :
              LET r == process_one_file(name, files, o)
              IN  /\ reports' = Append(reports, r.report)
                  /\ files' = r.files
                  /\ calls' = [calls EXCEPT ![name] =
                        [called |-> TRUE, outcome |-> o]]
    /\ i' = i + 1
    /\ IF i' = Len(compare_names)
       THEN ReportAndExit(reports')
       ELSE UNCHANGED <<pc, rows, exit_code>>
    /\ UNCHANGED <<manifest, workers, ssimVars>>

MainNext ==
    \/ ConvertOriginals
    \/ ConvertRoundtrip
    \/ Prepopulate
    \/ CompareNext

\* The run with the default --workers.
Init == MainInit /\ workers = 4 /\ SsimIdle
Next == MainNext
Spec == Init /\ [][Next]_vars

\* The runs with --workers 1 and --workers 4.
InitWorkers == MainInit /\ workers \in {1, 4} /\ SsimIdle
SpecWorkers == InitWorkers /\ [][Next]_vars

\* ------------------------------------------------- compute_ssim on its own

Pixels == {0, White}

\* The arrays _load_gray can return, up to MaxH by MaxW.
Images ==
    UNION {UNION {{Image(h, w, px) : px \in [(1..h) \X (1..w) -> Pixels]}
                  : w \in 1..MaxW} : h \in 1..MaxH}

MainIdle ==
    /\ manifest = [n \in NameSet |-> TRUE]
    /\ workers = 4
    /\ pc = "idle"
    /\ files = {}
    /\ reports = <<>>
    /\ i = 0
    /\ rows = <<>>
    /\ exit_code = -1
    /\ calls = [n \in NameSet |-> NotCalled]

InitSsim ==
    /\ MainIdle
    /\ img_a \in Images
    /\ img_b \in Images
    /\ scored = <<>>

\* compute_ssim up to the call of structural_similarity.
ComputeSsim ==
    /\ scored = <<>>
    /\ scored' = ScoredPair(img_a, img_b)
    /\ UNCHANGED <<mainVars, img_a, img_b>>

NextSsim == ComputeSsim
SpecSsim == InitSsim /\ [][NextSsim]_vars

\* ----------------------------------------------------------------- claims

Called(n) == calls[n].called
OutcomeOf(n) == calls[n].outcome
\* The report main appended for a name it gave to process_one_file.
ReportOf(n) == reports[CHOOSE k \in 1..Len(reports) : reports[k].name = n]
PageScores(r) == [k \in 1..Len(r.pages) |-> r.pages[k].ssim_score]

\* A document whose two PDFs rendered to different non-zero page counts.
Mismatch(n) ==
    /\ Called(n)
    /\ OutcomeOf(n).ro = "ok" /\ OutcomeOf(n).rr = "ok"
    /\ OutcomeOf(n).nO > 0 /\ OutcomeOf(n).nR > 0
    /\ OutcomeOf(n).nO # OutcomeOf(n).nR

\* The pages of a mismatch report: max(countA, countB) of them, numbered in
\* order, the one-sided ones with score 0 and no image for the missing side.
MismatchPages(n) ==
    LET r == ReportOf(n)
        o == OutcomeOf(n)
    IN  /\ Len(r.pages) = Max2(o.nO, o.nR)
        /\ \A k \in 1..Len(r.pages) : r.pages[k].page = k
        /\ \A k \in (Min2(o.nO, o.nR) + 1)..Max2(o.nO, o.nR) :
              /\ r.pages[k].ssim_score = 0
              /\ k > o.nO => r.pages[k].orig_png = NoPath
              /\ k > o.nR => r.pages[k].rt_png = NoPath

\* C1: main exits with status zero exactly when every report of the final
\* collection is ok and at or above the threshold.
C1_ExitZeroIffAllPass ==
    pc = "done" =>
        (exit_code = 0 <=>
            \A k \in 1..Len(reports) :
                reports[k].ok /\ reports[k].min_ssim >= Threshold)

C1_Witness ==
    /\ pc = "done"
    /\ exit_code = 0
    /\ Len(reports) = Len(file_names)

C3_FailedReportShape ==
    \A k \in 1..Len(reports) :
        ~reports[k].ok =>
            reports[k].error # "" /\ reports[k].pages = <<>>

\* C4: in every report process_one_file returns, min_ssim is the minimum and
\* mean_ssim the mean of its pages' scores, and both are 1.0 when it has no
\* pages.
C4_AggregatesMatchPages ==
    \A n \in NameSet :
        Called(n) =>
            /\ ReportOf(n).min_ssim = MinOf(PageScores(ReportOf(n)))
            /\ FracEq(ReportOf(n).mean_ssim,
                      MeanOf(PageScores(ReportOf(n))))

\* C5: no error of a conversion, rendering or scoring step ends the run:
\* main never dies of one, and when it is done every document has a report.
C5_NoErrorEndsTheRun ==
    /\ pc # "crashed"
    /\ pc = "done" =>
          \A n \in NameSet : \E k \in 1..Len(reports) : reports[k].name = n

\* The report main holds for a round-trip failure.
HasUpstreamFailure(n) ==
    \E k \in 1..Len(reports) :
        /\ reports[k].name = n
        /\ ~reports[k].ok
        /\ reports[k].error = "roundtrip failed (Go)"

ArtifactDirs ==
    {"work/orig_pdf", "work/rt_pdf", "work/orig_png", "work/rt_png",
     "report/images"}
PageImageDirs == {"work/orig_png", "work/rt_png", "report/images"}

\* C6 as stated: a document the manifest marks failed ends with the
\* "roundtrip failed" report, and no conversion, rendering or scoring was
\* run for it: no PDF or page image of it exists when main finishes.
C6_NoArtifactAsClaimed ==
    pc = "done" =>
        \A n \in failed_rt :
            /\ HasUpstreamFailure(n)
            /\ ~Called(n)
            /\ ~\E p \in files : p.stem = Stem(n) /\ p.dir \in ArtifactDirs

\* C6 amended: such a document ends with the "roundtrip failed (Go)" report,
\* process_one_file is never called for it, and no page image of it ever
\* exists in the work or report directories (the directory-wide LibreOffice
\* conversion may still have written its PDF).
C6_NoRenderingOfFailed ==
    \A n \in failed_rt :
        /\ pc = "done" => HasUpstreamFailure(n)
        /\ ~Called(n)
        /\ ~\E p \in files : p.stem = Stem(n) /\ p.dir \in PageImageDirs

C6_Witness ==
    /\ pc = "done"
    /\ \E n \in failed_rt :
          /\ HasUpstreamFailure(n)
          /\ OrigPdf(Stem(n)) \in files
    /\ \E n \in NameSet : Called(n) /\ ReportOf(n).ok

Rank(cls) == CASE cls = "fail" -> 0 [] cls = "warn" -> 1 [] cls = "pass" -> 2

\* C7: the report has one row per document, classed fail (not ok), warn (ok
\* and below the threshold) or pass (ok and at or above it); every fail row
\* comes before every warn row, every warn row before every pass row, and
\* the ok rows are in ascending min_ssim order.
C7_RowsClassifiedAndOrdered ==
    pc = "done" =>
        /\ Len(rows) = Len(reports)
        /\ \A k \in 1..Len(reports) :
              \E j \in 1..Len(rows) : rows[j].name = reports[k].name
        /\ \A j \in 1..Len(rows) :
              \E k \in 1..Len(reports) :
                  /\ reports[k].name = rows[j].name
                  /\ rows[j].status_cls = "fail" <=> ~reports[k].ok
                  /\ rows[j].status_cls = "warn" <=>
                        reports[k].ok /\ reports[k].min_ssim < Threshold
                  /\ rows[j].status_cls = "pass" <=>
                        reports[k].ok /\ reports[k].min_ssim >= Threshold
        /\ \A j1, j2 \in 1..Len(rows) :
              j1 < j2 =>
                  /\ Rank(rows[j1].status_cls) <= Rank(rows[j2].status_cls)
                  /\ rows[j1].ok /\ rows[j2].ok =>
                        rows[j1].min_ssim <= rows[j2].min_ssim

C7_Witness ==
    /\ pc = "done"
    /\ Len(rows) = 3
    /\ rows[1].status_cls = "fail"
    /\ rows[2].status_cls = "warn"
    /\ rows[3].status_cls = "pass"
    /\ reports[1].ok

\* What the run's inputs alone prescribe: the round-trip failures in
\* manifest order, then for each compared name, in manifest order, the
\* report process_one_file makes of the PDFs LibreOffice wrote and of the
\* document's outcome.
Prescribed ==
    LET pdfs == {p \in files : p.file = "pdf"}
    IN  Prepopulated \o
            [k \in 1..Len(compare_names) |->
                process_one_file(compare_names[k], pdfs,
                                 OutcomeOf(compare_names[k])).report]

\* C8: with 1 worker and with 4, the finished run holds the reports, the
\* sorted rows and the exit status that the manifest and the per-document
\* results prescribe, so the two runs end with the same content.
C8_SameContentForAnyWorkers ==
    pc = "done" =>
        LET prescribed == Prescribed
        IN  /\ reports = prescribed
            /\ rows = generate_html_report(prescribed, Threshold)
            /\ exit_code = ExitStatus(prescribed, Threshold)

C8_Witness ==
    /\ pc = "done"
    /\ workers = 1
    /\ Len(compare_names) = 3
    /\ ReportOf("a.docx").ok /\ ReportOf("b.docx").ok
    /\ ReportOf("a.docx").min_ssim = ReportOf("b.docx").min_ssim
    /\ Len(ReportOf("a.docx").pages) # Len(ReportOf("b.docx").pages)

\* C9: when the two arrays differ in shape, both are scored as arrays of the
\* larger height and the larger width, with each input's pixels where they
\* were from the top-left corner and 255 everywhere else; when the shapes
\* are equal, both are scored unchanged.
C9_PaddedToMaxShape ==
    scored # <<>> =>
        IF img_a.h = img_b.h /\ img_a.w = img_b.w
        THEN scored = <<img_a, img_b>>
        ELSE \A s \in 1..2 :
                LET src == IF s = 1 THEN img_a ELSE img_b
                    out == scored[s]
                IN  /\ out.h = Max2(img_a.h, img_b.h)
                    /\ out.w = Max2(img_a.w, img_b.w)
                    /\ DOMAIN out.px = (1..out.h) \X (1..out.w)
                    /\ \A c \in DOMAIN out.px :
                          out.px[c] = IF c \in DOMAIN src.px THEN src.px[c]
                                      ELSE 255

C9_Witness ==
    /\ scored # <<>>
    /\ img_a.h < img_b.h
    /\ img_a.w > img_b.w
    /\ \E c \in DOMAIN img_a.px : img_a.px[c] = 0
    /\ scored[1].px[<<img_b.h, img_a.w>>] = 255

\* C10: every non-empty image reference of an ok report names a file that
\* exists after process_one_file has cleaned up.
C10_ReferencesExist ==
    \A n \in NameSet :
        Called(n) /\ ReportOf(n).ok =>
            \A k \in 1..Len(ReportOf(n).pages) :
                \A ref \in {ReportOf(n).pages[k].orig_png,
                            ReportOf(n).pages[k].rt_png,
                            ReportOf(n).pages[k].diff_png} :
                    ref # NoPath => ref \in files

====
